---- MODULE Spec2Model ----
(***************************************************************************)
(* The Run execution core of digitalhub-sdk: the Run entity                *)
(* (sdk/entities/runs/entity.py) and the DBT runtime                        *)
(* (sdk/runtimes/objects/dbt.py).                                           *)
(*                                                                         *)
(* Python strings that the code splits are sequences of characters, where  *)
(* a word that is never split ("transform", "myfn") stands for one         *)
(* character. Python dicts are functions whose DOMAIN is the key set.      *)
(* Exception messages are sequences of text fragments; the empty message   *)
(* is the empty sequence.                                                  *)
(***************************************************************************)
EXTENDS Integers, Sequences, FiniteSets, TLC

VARIABLES id, local, metadata, spec, status, backend, last, prev, threads

vars == <<id, local, metadata, spec, status, backend, last, prev, threads>>

----------------------------------------------------------------------------
\* sdk.entities.base.status.State, as imported by entity.py and dbt.py

CREATED == "created"
PENDING == "pending"
RUNNING == "running"
COMPLETED == "completed"
ERROR == "error"
State == {CREATED, PENDING, RUNNING, COMPLETED, ERROR}

\* TaskKinds.TRANSFORM.value and DataitemKinds.DBT.value
TRANSFORM == "transform"
DBT == "dbt"

----------------------------------------------------------------------------
\* Python values

EmptyDict == [k \in {} |-> 0]

\* {**a, **b}: the keys of both, b's value on a collision
Overlay(a, b) ==
  [k \in (DOMAIN a) \cup (DOMAIN b) |-> IF k \in DOMAIN b THEN b[k] ELSE a[k]]

\* an exception object; text is what str(e) returns
Exc(type, text) == [type |-> type, text |-> text]
NoExc == Exc("none", <<>>)
str(e) == e.text

\* position of the first occurrence of sep in s at or after i, 0 if none
RECURSIVE Find(_, _, _)
Find(s, sep, i) ==
  IF i + Len(sep) - 1 > Len(s) THEN 0
  ELSE IF SubSeq(s, i, i + Len(sep) - 1) = sep THEN i
  ELSE Find(s, sep, i + 1)

\* str.split(sep)
RECURSIVE split(_, _)
split(s, sep) ==
  LET i == Find(s, sep, 1) IN
  IF i = 0 THEN <<s>>
  ELSE <<SubSeq(s, 1, i - 1)>> \o split(SubSeq(s, i + Len(sep), Len(s)), sep)

\* str.replace(a, b) for one-character a and b
replace(s, a, b) == [i \in 1..Len(s) |-> IF s[i] = a THEN b ELSE s[i]]

----------------------------------------------------------------------------
\* Inputs: the Runs that run_from_parameters can be asked to create

\* "<functionKind>+<taskKind>://<path>/<functionName>:<functionId>"
TaskStr(fk, tk) == <<fk, "+", tk, ":", "/", "/", "ns", "/", "myfn", ":", "f1">>

Tasks ==
  { TaskStr("transform", "transform"),   \* the transform scenario
    TaskStr("transform", "job"),         \* a task kind the runtime does not allow
    TaskStr("job", "transform"),         \* a function kind with no runtime
    <<"transform", "+", "transform">> }  \* no "://"

Projects == { <<"p", "-", "1">>, <<"q">> }

\* the id the Run is created with and an id the backend or the caller of
\* save may give it
Ids == {"r1", "r2"}

\* the value under spec["inputs"] / spec["outputs"]: a bare list, a mapping
\* with a "dataitems" list, a mapping whose "dataitems" is not a list, a
\* mapping without "dataitems", or None
Val(shape, items) == [shape |-> shape, items |-> items]

IOShapes ==
  { <<Val("dict", <<"t1">>), Val("dict", <<"t2">>)>>,
    <<Val("list", <<"t1">>), Val("list", <<"t2">>)>>,
    <<Val("dict", <<"t1">>), Val("dict", <<>>)>>,
    <<Val("dict_nolist", <<>>), Val("dict", <<"t2">>)>>,
    <<Val("dict", <<"t1">>), Val("dict_nolist", <<>>)>>,
    <<Val("dict_nokey", <<>>), Val("none", <<>>)>> }

\* the Function and Task objects the backend may hold for the task reference
FunctionSpecs ==
  { ("sql" :> "sqlF") @@ ("outputs" :> Val("dict", <<"tF">>)) @@ ("source" :> "srcF") }

TaskSpecs ==
  { EmptyDict,
    ("sql" :> "sqlT") @@ ("outputs" :> Val("dict", <<"tT">>)) @@ ("function" :> "fnT") }

\* texts an exception of a collaborator (dataitem store, engine) may carry
ExcTexts == { <<>>, <<"boom">> }

Uuids == {"u1", "u2"}

----------------------------------------------------------------------------
\* Task reference (entity.py)

ParseError(type, text) ==
  [raised |-> TRUE, exc |-> Exc(type, text), function_kind |-> <<>>,
   task_kind |-> <<>>, function_name |-> <<>>, function_id |-> <<>>,
   task_id |-> ""]

TaskString(fk, tk, fn, fi, ti) ==
  [raised |-> FALSE, exc |-> NoExc, function_kind |-> fk, task_kind |-> tk,
   function_name |-> fn, function_id |-> fi, task_id |-> ti]

_parse_task_string(s) ==
  LET a == split(s["task"], <<":", "/", "/">>) IN
  IF Len(a) # 2 THEN ParseError("ValueError", <<"unpack">>) ELSE
  LET b == split(a[1], <<"+">>) IN
  IF Len(b) # 2 THEN ParseError("ValueError", <<"unpack">>) ELSE
  LET c == split(a[2], <<"/">>) IN
  IF Len(c) < 2 THEN ParseError("IndexError", <<"list index out of range">>) ELSE
  LET d == split(c[2], <<":">>) IN
  IF Len(d) # 2 THEN ParseError("ValueError", <<"unpack">>) ELSE
  TaskString(b[1], b[2], d[1], d[2], s["task_id"])

\* the function kinds a Runtime is registered for
RuntimeKinds == { <<"transform">> }

build_runtime(fnc_kind) ==
  IF fnc_kind \in RuntimeKinds
  THEN [raised |-> FALSE, exc |-> NoExc]
  ELSE [raised |-> TRUE, exc |-> Exc("EntityError", <<"Runtime not found">>)]

_get_runtime(s) ==
  LET parsed == _parse_task_string(s) IN
  IF parsed.raised THEN [raised |-> TRUE, exc |-> parsed.exc]
  ELSE build_runtime(parsed.function_kind)

----------------------------------------------------------------------------
\* What the collaborators do in one execution (dataitem store, file system,
\* external engine). The steps of transform run in sequence and the first
\* failure ends it, so one execution meets at most one fault:
\*   input_missing   get_dataitem fails for input number `at` (dbt.py:242)
\*   write_raises    di.write_df raises for input number `at` (dbt.py:248)
\*   lookup_raises   get_dataitem raises in generate_inputs_conf (dbt.py:382)
\*   engine_raises   the engine invocation raises (dbt.py:412-416)
\*   no_results, not_success, wrong_project, wrong_name
\*                   what the engine's result reports (dbt.py:480-493)
\*   bad_timings     a phase's timestamps are incomplete (dbt.py:568-573)
\*   create_fails    new_dataitem raises (dbt.py:612)
\* text is the text of the collaborator's own exception, uuid what
\* get_uiid returns.

ResultFaults ==
  {"no_results", "not_success", "wrong_project", "wrong_name", "bad_timings",
   "create_fails"}

Env(fault, at, text, uuid) ==
  [fault |-> fault, at |-> at, text |-> text, uuid |-> uuid]

NoEnv == Env("unused", 0, <<>>, "")

Envs ==
  { Env("none", 0, <<>>, u) : u \in Uuids }
  \cup { Env(f, 0, <<>>, "u1") : f \in ResultFaults }
  \cup { Env("engine_raises", 0, t, "u1") : t \in ExcTexts }
  \cup { Env("input_missing", 1, <<>>, "u1") }
  \cup { Env(f, 1, t, "u1") : f \in {"write_raises", "lookup_raises"}, t \in ExcTexts }

\* One step of the runtime: the exception it raised (NoExc if none), the
\* value it returned, the side effects it had, in order, and whether it
\* met the fault of env.
Step(exc, value, effects, met) ==
  [raised |-> exc.type # "none", exc |-> exc, value |-> value,
   effects |-> effects, met |-> met]

Effect(e, name) == [e |-> e, name |-> name]

----------------------------------------------------------------------------
\* RuntimeDBT (dbt.py)

\* RuntimeDBT.build merging in the opposite order
RuntimeDBT_build_reversed(function, task, run) ==
  Overlay(Overlay(run, task), function)

\* {**function.get("spec"), **task.get("spec"), **run.get("spec")}
RuntimeDBT_build(function, task, run) ==
  Overlay(Overlay(function, task), run)

\* spec.get(key, {}).get("dataitems", [])
SpecDataitems(s, key) ==
  IF key \notin DOMAIN s THEN Step(NoExc, Val("list", <<>>), <<>>, FALSE)
  ELSE LET v == s[key] IN
    CASE v.shape = "dict" -> Step(NoExc, Val("list", v.items), <<>>, FALSE)
      [] v.shape = "dict_nokey" -> Step(NoExc, Val("list", <<>>), <<>>, FALSE)
      [] v.shape = "dict_nolist" -> Step(NoExc, Val("other", <<>>), <<>>, FALSE)
      [] v.shape = "list" ->
           Step(Exc("AttributeError", <<"'list' object has no attribute 'get'">>),
                v, <<>>, FALSE)
      [] OTHER ->
           Step(Exc("AttributeError", <<"'NoneType' object has no attribute 'get'">>),
                v, <<>>, FALSE)

RECURSIVE materialize_from(_, _, _, _)
materialize_from(inputs, project, env, i) ==
  IF i > Len(inputs) THEN Step(NoExc, inputs, <<>>, FALSE)
  ELSE IF env.fault = "input_missing" /\ env.at = i
  THEN Step(Exc("RuntimeError",
                <<"Dataitem ", inputs[i], " not found in project ">> \o project),
            inputs, <<>>, TRUE)
  ELSE IF env.fault = "write_raises" /\ env.at = i
  THEN Step(Exc("Collaborator", env.text), inputs, <<>>, TRUE)
  ELSE LET rest == materialize_from(inputs, project, env, i + 1) IN
       Step(rest.exc, inputs, <<Effect("table", inputs[i])>> \o rest.effects,
            rest.met)

materialize_inputs(inputs, project, env) ==
  materialize_from(inputs, project, env, 1)

parse_inputs(inputs, project, env) ==
  IF inputs.shape # "list"
  THEN Step(Exc("RuntimeError", <<"Inputs must be a list of dataitems">>),
            <<>>, <<>>, FALSE)
  ELSE materialize_inputs(inputs.items, project, env)

parse_outputs(outputs) ==
  IF outputs.shape # "list"
  THEN Step(Exc("RuntimeError", <<"Outputs must be a list of dataitems">>),
            "", <<>>, FALSE)
  ELSE IF Len(outputs.items) = 0
  THEN Step(Exc("IndexError", <<"list index out of range">>), "", <<>>, FALSE)
  ELSE Step(NoExc, outputs.items[1], <<>>, FALSE)

\* the name written to dbt_project.yml
generate_dbt_project_yml(project) == replace(project, "-", "_")

generate_outputs_conf(s, output, uuid) ==
  IF "sql" \notin DOMAIN s
  THEN Step(Exc("TypeError", <<"decode_string: no sql">>), <<>>, <<>>, FALSE)
  ELSE Step(NoExc, <<>>, <<Effect("model", output), Effect("version", uuid)>>,
            FALSE)

RECURSIVE generate_inputs_from(_, _, _)
generate_inputs_from(inputs, env, i) ==
  IF i > Len(inputs) THEN Step(NoExc, <<>>, <<>>, FALSE)
  ELSE IF env.fault = "lookup_raises" /\ env.at = i
  THEN Step(Exc("Collaborator", env.text), <<>>, <<>>, TRUE)
  ELSE LET rest == generate_inputs_from(inputs, env, i + 1) IN
       Step(rest.exc, <<>>, <<Effect("source", inputs[i])>> \o rest.effects,
            rest.met)

generate_inputs_conf(inputs, env) == generate_inputs_from(inputs, env, 1)

\* the generated project description: its name, the output and the
\* revision id bound to it
setup(inputs, output, uuid, project, s, env) ==
  LET conf == [name |-> generate_dbt_project_yml(project), output |-> output,
               uuid |-> uuid]
      out == generate_outputs_conf(s, output, uuid)
  IN IF out.raised THEN Step(out.exc, conf, <<Effect("project", "")>>, FALSE)
     ELSE LET inp == generate_inputs_conf(inputs, env) IN
          Step(inp.exc, conf,
               <<Effect("project", "")>> \o out.effects \o inp.effects, inp.met)

\* what the engine reports for the generated project
EngineResult(conf, env) ==
  IF env.fault = "no_results" THEN <<>>
  ELSE << [status |-> IF env.fault = "not_success" THEN "error" ELSE "success",
           package_name |->
             IF env.fault = "wrong_project" THEN <<"other">> ELSE conf.name,
           name |-> IF env.fault = "wrong_name" THEN "other" ELSE conf.output,
           timings |-> env.fault # "bad_timings"] >>

execute(conf, env) ==
  IF env.fault = "engine_raises"
  THEN Step(Exc("Collaborator", env.text), <<>>,
            <<Effect("chdir", "dbt_run"), Effect("engine", conf.output)>>, TRUE)
  ELSE Step(NoExc, EngineResult(conf, env),
            <<Effect("chdir", "dbt_run"), Effect("engine", conf.output),
              Effect("chdir", "..")>>,
            env.fault \in {"no_results", "not_success", "wrong_project", "wrong_name"})

\* validate_results without the check of the result's status
validate_results_any_status(run_result, output, project) ==
  IF Len(run_result) = 0
  THEN Step(Exc("RuntimeError", <<"No results found.">>), <<>>, <<>>, FALSE)
  ELSE LET result == run_result[Len(run_result)] IN
    IF result.package_name # replace(project, "-", "_")
    THEN Step(Exc("RuntimeError", <<"Wrong project name.">>), result, <<>>, FALSE)
    ELSE IF result.name # output
    THEN Step(Exc("RuntimeError", <<"Wrong output name.">>), result, <<>>, FALSE)
    ELSE Step(NoExc, result, <<>>, FALSE)

validate_results(run_result, output, project) ==
  IF Len(run_result) = 0
  THEN Step(Exc("RuntimeError", <<"No results found.">>), <<>>, <<>>, FALSE)
  ELSE LET result == run_result[Len(run_result)] IN
    IF result.status # "success"
    THEN Step(Exc("RuntimeError",
                  <<"Something got wrong during function execution.">>),
              result, <<>>, FALSE)
    ELSE IF result.package_name # replace(project, "-", "_")
    THEN Step(Exc("RuntimeError", <<"Wrong project name.">>), result, <<>>, FALSE)
    ELSE IF result.name # output
    THEN Step(Exc("RuntimeError", <<"Wrong output name.">>), result, <<>>, FALSE)
    ELSE Step(NoExc, result, <<>>, FALSE)

\* parse_results accepting a result whose timings are incomplete
parse_results_any_timings(run_result, output, project) ==
  LET v == validate_results(run_result, output, project) IN
  IF v.raised THEN v
  ELSE Step(NoExc, [name |-> v.value.name, timings |-> ("timing" :> "timing")],
            <<>>, FALSE)

parse_results(run_result, output, project) ==
  LET v == validate_results(run_result, output, project) IN
  IF v.raised THEN v
  ELSE IF ~v.value.timings
  THEN Step(Exc("RuntimeError", <<"Something got wrong during results parsing.">>),
            <<>>, <<>>, TRUE)
  ELSE Step(NoExc, [name |-> v.value.name, timings |-> ("timing" :> "timing")],
            <<>>, FALSE)

\* the Dataitem the backend registers under the given revision id
new_dataitem(project, name, kind, uuid) ==
  [project |-> project, name |-> name, kind |-> kind, id |-> uuid]

create_dataitem(result, project, uuid, env) ==
  IF env.fault = "create_fails"
  THEN Step(Exc("RuntimeError", <<"Something got wrong during dataitem creation.">>),
            <<>>, <<>>, TRUE)
  ELSE Step(NoExc, new_dataitem(project, result.name, DBT, uuid),
            <<Effect("dataitem", result.name)>>, FALSE)

\* get_dataitem_info keyed by the dataitem's id instead of the output
get_dataitem_info_by_id(output, dataitem) ==
  ("dataitems" :>
     << [key |-> dataitem.id, kind |-> dataitem.kind,
         id |-> <<"store", ":", "/", "/">> \o dataitem.project
                \o <<"/", "dataitems", "/", dataitem.kind, "/", dataitem.name,
                     ":", dataitem.id>>] >>)

\* store://<project>/dataitems/<kind>/<name>:<id>
get_dataitem_info(output, dataitem) ==
  ("dataitems" :>
     << [key |-> output, kind |-> dataitem.kind,
         id |-> <<"store", ":", "/", "/">> \o dataitem.project
                \o <<"/", "dataitems", "/", dataitem.kind, "/", dataitem.name,
                     ":", dataitem.id>>] >>)


\* what transform returned or raised, its side effects, and the part of env
\* it consumed (NoEnv when it ended before asking any collaborator)
Outcome(exc, value, effects, env) ==
  [raised |-> exc.type # "none", exc |-> exc, value |-> value,
   effects |-> effects, env |-> env]

Consumed(step, env) == IF step.met THEN env ELSE NoEnv

transform(run, env) ==
  LET project == run.project
      s == run.spec
      ri == SpecDataitems(s, "inputs")
  IN IF ri.raised THEN Outcome(ri.exc, EmptyDict, <<>>, NoEnv) ELSE
  LET inputs == parse_inputs(ri.value, project, env)
  IN IF inputs.raised
     THEN Outcome(inputs.exc, EmptyDict, inputs.effects, Consumed(inputs, env)) ELSE
  LET ro == SpecDataitems(s, "outputs")
  IN IF ro.raised THEN Outcome(ro.exc, EmptyDict, inputs.effects, NoEnv) ELSE
  LET output == parse_outputs(ro.value)
  IN IF output.raised THEN Outcome(output.exc, EmptyDict, inputs.effects, NoEnv) ELSE
  LET uuid == env.uuid
      clean == Env("none", 0, <<>>, uuid)
      su == setup(inputs.value, output.value, uuid, project, s, env)
      e1 == inputs.effects \o su.effects
  IN IF su.raised
     THEN Outcome(su.exc, EmptyDict, e1, IF su.met THEN env ELSE clean) ELSE
  LET execution_results == execute(su.value, env)
      e2 == e1 \o execution_results.effects
  IN IF execution_results.raised
     THEN Outcome(execution_results.exc, EmptyDict, e2, env) ELSE
  LET parsed_result == parse_results(execution_results.value, output.value, project)
  IN IF parsed_result.raised THEN Outcome(parsed_result.exc, EmptyDict, e2, env) ELSE
  LET dataitem == create_dataitem(parsed_result.value, project, uuid, env)
  IN IF dataitem.raised THEN Outcome(dataitem.exc, EmptyDict, e2, env) ELSE
  Outcome(NoExc,
          Overlay(Overlay(get_dataitem_info(output.value, dataitem.value),
                          parsed_result.value.timings),
                  ("state" :> COMPLETED)),
          e2 \o dataitem.effects, env)

\* a status check that lets every state pass
NotPending_never(run) == FALSE

\* The status check of RuntimeDBT.run
NotPending(run) == run.status["state"] # PENDING

\* RuntimeDBT.run checking the task kind before the state
RuntimeDBT_run_kind_first(run, env) ==
  LET a == split(split(run.spec["task"], <<":">>)[1], <<"+">>) IN
  IF Len(a) < 2
  THEN Outcome(Exc("IndexError", <<"list index out of range">>),
               EmptyDict, <<>>, NoEnv)
  ELSE LET action == a[2] IN
    IF action # <<TRANSFORM>>
    THEN Outcome(Exc("EntityError",
                     <<"Task ">> \o action \o <<" not allowed for DBT runtime">>),
                 EmptyDict, <<>>, NoEnv)
    ELSE IF NotPending(run)
    THEN Outcome(Exc("EntityError",
                     <<"Run is not in pending state. Build it again.">>),
                 EmptyDict, <<>>, NoEnv)
    ELSE transform(run, env)

RuntimeDBT_run(run, env) ==
  IF NotPending(run)
  THEN Outcome(Exc("EntityError",
                   <<"Run is not in pending state. Build it again.">>),
               EmptyDict, <<>>, NoEnv)
  ELSE LET a == split(split(run.spec["task"], <<":">>)[1], <<"+">>) IN
    IF Len(a) < 2
    THEN Outcome(Exc("IndexError", <<"list index out of range">>),
                 EmptyDict, <<>>, NoEnv)
    ELSE LET action == a[2] IN
      IF action = <<TRANSFORM>> THEN transform(run, env)
      ELSE Outcome(Exc("EntityError",
                       <<"Task ">> \o action \o <<" not allowed for DBT runtime">>),
                   EmptyDict, <<>>, NoEnv)


----------------------------------------------------------------------------
\* Run (entity.py)

\* no transform is executing in another thread
NoThreads == [pc |-> <<>>]

\* Entity.to_dict: the mapping handed to the Runtime and to the backend
to_dict(i, m, s, st) == [id |-> i, project |-> m.project, spec |-> s, status |-> st]

\* build_spec(RUNS, kind, ignore_validation=True, **new_spec)
build_spec(new_spec) == new_spec

\* build_status(RUNS, **status): the state defaults to CREATED
build_status(st) ==
  IF "state" \in DOMAIN st THEN st ELSE Overlay(st, ("state" :> CREATED))

\* build() leaving the Run in RUNNING
PendingStatus_running == ("state" :> RUNNING)

\* the status build() sets
PendingStatus == ("state" :> PENDING)

\* the except branch of Run.run writing a state outside the enumeration
ErrorStatus_failed(e) == ("state" :> "failed") @@ ("message" :> str(e))

\* the status run() sets when the Runtime raised e
ErrorStatus(e) == ("state" :> ERROR) @@ ("message" :> str(e))

\* Context.update_object on an id the backend does or does not hold; the
\* backend decides (accept) whether it takes an update of an unknown id
update_object(b, obj, uuid, accept) ==
  IF uuid \in DOMAIN b \/ accept
  THEN [raised |-> FALSE, exc |-> NoExc, backend |-> Overlay(b, (uuid :> obj))]
  ELSE [raised |-> TRUE, exc |-> Exc("BackendError", <<"not found">>), backend |-> b]

\* Context.create_object: the backend stores obj under the id it answers
\* with (resp), or under obj's id when its answer carries none
create_object(b, obj, resp) ==
  LET key == IF resp = "None" THEN obj.id ELSE resp IN
  [raised |-> FALSE, exc |-> NoExc,
   backend |-> Overlay(b, (key :> [obj EXCEPT !.id = key]))]

\* Context.read_object on a run
read_object(b, i) ==
  IF i \in DOMAIN b
  THEN [raised |-> FALSE, exc |-> NoExc, value |-> b[i], read |-> i]
  ELSE [raised |-> TRUE, exc |-> Exc("BackendError", <<"not found">>),
        value |-> EmptyDict, read |-> i]

\* An object left under an id the Run no longer has. The Run reads the
\* backend under its own id only, and taking an id writes the object under
\* it first, so what such an object holds is never read: it is kept without
\* its content.
Foreign == [id |-> "", project |-> <<>>, spec |-> EmptyDict, status |-> EmptyDict]

Leave(b, old, new) ==
  IF old # new /\ old \in DOMAIN b THEN Overlay(b, (old :> Foreign)) ELSE b

\* save whose update request is never sent
save_unsent(loc, i, obj, b, uuid, accept, resp) ==
  IF loc
  THEN [raised |-> TRUE,
        exc |-> Exc("EntityError", <<"Use .export() for local execution.">>),
        id |-> i, backend |-> b, api |-> "none"]
  ELSE IF uuid = "None"
  THEN LET r == create_object(b, obj, resp)
           id_ == IF resp # "None" THEN resp ELSE i
       IN [raised |-> r.raised, exc |-> r.exc, id |-> id_,
           backend |-> Leave(r.backend, i, id_), api |-> "create"]
  ELSE [raised |-> FALSE, exc |-> NoExc, id |-> uuid, backend |-> b, api |-> "none"]

\* Run.save(uuid): the exception raised, the Run's id and the backend after it
save(loc, i, obj, b, uuid, accept, resp) ==
  IF loc
  THEN [raised |-> TRUE,
        exc |-> Exc("EntityError", <<"Use .export() for local execution.">>),
        id |-> i, backend |-> b, api |-> "none"]
  ELSE IF uuid = "None"
  THEN LET r == create_object(b, obj, resp)
           id_ == IF resp # "None" THEN resp ELSE i
       IN [raised |-> r.raised, exc |-> r.exc, id |-> id_,
           backend |-> Leave(r.backend, i, id_), api |-> "create"]
  ELSE LET r == update_object(b, obj, uuid, accept) IN
       [raised |-> r.raised, exc |-> r.exc, id |-> uuid,
        backend |-> Leave(r.backend, i, uuid), api |-> "update"]

\* refresh without the check of the local flag
refresh_unchecked(loc, i, b) == read_object(b, i)

\* refresh answering from the Run's own fields instead of the backend
refresh_cached(loc, i, b) ==
  IF loc
  THEN [raised |-> TRUE, exc |-> Exc("EntityError", <<"Cannot refresh local run.">>),
        value |-> EmptyDict, read |-> "None"]
  ELSE [raised |-> FALSE, exc |-> NoExc,
        value |-> [id |-> i, project |-> metadata.project, spec |-> spec,
                   status |-> status],
        read |-> "None"]

\* Run.refresh: the answer and the id read from the backend ("None" when no
\* read is issued)
refresh(loc, i, b) ==
  IF loc
  THEN [raised |-> TRUE, exc |-> Exc("EntityError", <<"Cannot refresh local run.">>),
        value |-> EmptyDict, read |-> "None"]
  ELSE read_object(b, i)

\* the record of the last call on the Run: the operation and its argument,
\* the state before it, the exception it raised to the caller,
\* the exception it caught, what the collaborators did, its side effects,
\* the Function and Task specs it read, whether it replaced the spec, the
\* id refresh() read from the backend and the backend's answer, the ids
\* a getter resolved, the TaskString a parse returned, and the request save
\* sent to the backend ("create", "update" or "none"); and, since the last
\* call of build(), how often the engine was invoked and a Dataitem registered
NoTask == TaskString(<<>>, <<>>, <<>>, <<>>, "")

Call(op) ==
  [op |-> op, key |-> "None", pre |-> status["state"], exc |-> NoExc,
   caught |-> NoExc, env |-> NoEnv, effects |-> <<>>, function |-> EmptyDict,
   task |-> EmptyDict, merged |-> FALSE, read |-> "None", resp |-> EmptyDict,
   result |-> <<>>, parsed |-> NoTask, api |-> "none",
   engines |-> IF op = "init" THEN 0 ELSE last.engines,
   registered |-> IF op = "init" THEN 0 ELSE last.registered]

\* the number of effects e among effects, added to a count kept up to MaxCount
MaxCount == 2
Count(n, effects, e) ==
  LET k == n + Cardinality({ i \in 1..Len(effects) : effects[i].e = e }) IN
  IF k > MaxCount THEN MaxCount ELSE k

\* what is kept of the call before the last one when that call was a build
\* and the last one is a build or a run: whether it returned and the state
\* it started from
NoCall == [op |-> "other", ok |-> TRUE, pre |-> CREATED]

Summary(c) ==
  IF c.op = "build"
  THEN [op |-> c.op, ok |-> c.exc.type = "none", pre |-> c.pre]
  ELSE NoCall


\* _set_status that updates the old status instead of replacing it
_set_status_update(st) == build_status(Overlay(status, st))

\* _set_status that keeps a terminal ERROR status
_set_status_sticky(st) ==
  IF status["state"] = ERROR THEN status ELSE build_status(st)

\* Run._set_status; every status build() and RuntimeDBT.run hand over is a
\* mapping, so the isinstance check passes
_set_status(st) == build_status(st)

\* the lookup by output_key taking the last entry of that key
ResultOf_last(resp, field, output_key, noun) ==
  IF field \notin DOMAIN resp.status
  THEN [exc |-> Exc("EntityError",
                    <<"Run has no result (maybe try when it finishes).">>),
        result |-> <<>>]
  ELSE LET result == resp.status[field]
           hits == { i \in 1..Len(result) : result[i].key = output_key }
       IN IF output_key # "None"
          THEN IF hits = {}
               THEN [exc |-> Exc("EntityError",
                                 <<"No ", noun, " found with key '", output_key, "'.">>),
                     result |-> <<>>]
               ELSE [exc |-> NoExc,
                     result |-> <<result[CHOOSE i \in hits : \A j \in hits : i >= j].id>>]
          ELSE [exc |-> NoExc, result |-> [i \in 1..Len(result) |-> result[i].id]]

\* resp.get("status", {}).get(field), then the lookup by output_key or the
\* whole list (get_artifacts and get_dataitem share these lines)
ResultOf(resp, field, output_key, noun) ==
  IF field \notin DOMAIN resp.status
  THEN [exc |-> Exc("EntityError",
                    <<"Run has no result (maybe try when it finishes).">>),
        result |-> <<>>]
  ELSE LET result == resp.status[field]
           hits == { i \in 1..Len(result) : result[i].key = output_key }
       IN IF output_key # "None"
          THEN IF hits = {}
               THEN [exc |-> Exc("EntityError",
                                 <<"No ", noun, " found with key '", output_key, "'.">>),
                     result |-> <<>>]
               ELSE [exc |-> NoExc,
                     result |-> <<result[CHOOSE i \in hits : \A j \in hits : i <= j].id>>]
          ELSE [exc |-> NoExc, result |-> [i \in 1..Len(result) |-> result[i].id]]

get_artifacts(loc, i, b, output_key) ==
  LET resp == refresh(loc, i, b) IN
  IF resp.raised THEN [exc |-> resp.exc, result |-> <<>>]
  ELSE ResultOf(resp.value, "artifacts", output_key, "artifact")

get_dataitem(loc, i, b, output_key) ==
  LET resp == refresh(loc, i, b) IN
  IF resp.raised THEN [exc |-> resp.exc, result |-> <<>>]
  ELSE ResultOf(resp.value, "dataitems", output_key, "dataitem")

----------------------------------------------------------------------------
\* The state machine

BaseSpec(t) == ("task" :> t) @@ ("task_id" :> "tk1")

WithIO(t, io) == BaseSpec(t) @@ ("inputs" :> io[1]) @@ ("outputs" :> io[2])

ScenarioTask == TaskStr("transform", "transform")
ScenarioIO == <<Val("dict", <<"t1">>), Val("dict", <<"t2">>)>>
ScenarioProject == <<"p", "-", "1">>

\* the Runs to start from: the transform scenario in every project, local or
\* not, stored or not; every other task string; every other shape of
\* inputs and outputs
InitRuns ==
  { [spec |-> WithIO(ScenarioTask, ScenarioIO), project |-> p, local |-> FALSE,
     stored |-> FALSE] : p \in Projects }
  \cup { [spec |-> WithIO(ScenarioTask, ScenarioIO), project |-> ScenarioProject,
          local |-> l, stored |-> ~l] : l \in BOOLEAN }
  \cup { [spec |-> WithIO(t, ScenarioIO), project |-> ScenarioProject,
          local |-> FALSE, stored |-> FALSE] : t \in Tasks }
  \cup { [spec |-> s, project |-> ScenarioProject, local |-> FALSE, stored |-> FALSE] :
          s \in {BaseSpec(ScenarioTask)}
                \cup { WithIO(ScenarioTask, io) : io \in IOShapes } }

\* a run of this id that the backend already holds, with its artifacts
StoredStatus ==
  ("state" :> COMPLETED)
  @@ ("artifacts" :> << [key |-> "out", id |-> "a1"], [key |-> "aux", id |-> "a2"],
                        [key |-> "out", id |-> "a3"] >>)

OutputKeys == {"None", "out", "t2"}

\* run_from_parameters
InitRun(r) ==
  /\ id = "r1"
  /\ local = r.local
  /\ metadata = [project |-> r.project]
  /\ spec = r.spec
  /\ status = build_status(EmptyDict)
  /\ backend = IF r.stored
               THEN ("r1" :> to_dict("r1", metadata, spec, StoredStatus))
               ELSE EmptyDict
  /\ last = Call("init")
  /\ prev = NoCall

Init ==
  \E r \in InitRuns :
  /\ InitRun(r)
  /\ threads = NoThreads

\* the backend's answers to an update of an id it does not hold
Accepts == IF id \in DOMAIN backend THEN {TRUE} ELSE BOOLEAN

\* a failed build that swallows the error into an ERROR status
BuildFailed_swallowed(exc) ==
  [exc |-> NoExc, spec |-> spec, status |-> ErrorStatus(exc), id |-> id,
   backend |-> backend, merged |-> FALSE, function |-> EmptyDict,
   task |-> EmptyDict, api |-> "none"]

\* what a failed build leaves: nothing changed, exc raised to the caller
BuildFailed(exc) ==
  [exc |-> exc, spec |-> spec, status |-> status, id |-> id, backend |-> backend,
   merged |-> FALSE, function |-> EmptyDict, task |-> EmptyDict, api |-> "none"]

\* Run.build with the backend's answers to the Function and Task reads
build(fnFound, function, tkFound, task, accept) ==
  LET parsed == _parse_task_string(spec) IN
  IF parsed.raised THEN BuildFailed(parsed.exc)
  ELSE IF ~fnFound THEN BuildFailed(Exc("BackendError", <<"function not found">>))
  ELSE IF ~tkFound THEN BuildFailed(Exc("BackendError", <<"task not found">>))
  ELSE LET runtime == _get_runtime(spec) IN
  IF runtime.raised THEN BuildFailed(runtime.exc)
  ELSE LET new_spec == RuntimeDBT_build(function, task,
                                        to_dict(id, metadata, spec, status).spec)
           sp == build_spec(new_spec)
           st == _set_status(PendingStatus)
           sv == save(local, id, to_dict(id, metadata, sp, st), backend, id,
                      accept, "None")
       IN [exc |-> sv.exc, spec |-> sp, status |-> st, id |-> sv.id,
           backend |-> sv.backend, merged |-> TRUE, function |-> function,
           task |-> task, api |-> sv.api]

\* the backend's answers to the two reads of build
Reads ==
  { [fnFound |-> FALSE, function |-> EmptyDict, tkFound |-> FALSE, task |-> EmptyDict] }
  \cup { [fnFound |-> TRUE, function |-> f, tkFound |-> FALSE, task |-> EmptyDict] :
          f \in FunctionSpecs }
  \cup { [fnFound |-> TRUE, function |-> f, tkFound |-> TRUE, task |-> t] :
          f \in FunctionSpecs, t \in TaskSpecs }

Run_build ==
  \E rd \in Reads, accept \in Accepts :
  \E r \in {build(rd.fnFound, rd.function, rd.tkFound, rd.task, accept)} :
    /\ spec' = r.spec
    /\ status' = r.status
    /\ id' = r.id
    /\ backend' = r.backend
    /\ last' = [Call("build") EXCEPT !.exc = r.exc, !.merged = r.merged,
                                     !.function = r.function, !.task = r.task,
                                     !.api = r.api, !.engines = 0,
                                     !.registered = 0]
    /\ prev' = Summary(last)
    /\ UNCHANGED <<threads, local, metadata>>

\* the collaborators are asked only by a transform, which needs PENDING
RunEnvs == IF status["state"] = PENDING THEN Envs ELSE {NoEnv}

\* Run.run with what the collaborators do during it
run(env, accept) ==
  LET runtime == _get_runtime(spec) IN
  IF runtime.raised
  THEN [exc |-> runtime.exc, caught |-> NoExc, status |-> status, id |-> id,
        backend |-> backend, env |-> NoEnv, effects |-> <<>>, api |-> "none"]
  ELSE LET res == RuntimeDBT_run(to_dict(id, metadata, spec, status), env)
           st == _set_status(IF res.raised THEN ErrorStatus(res.exc) ELSE res.value)
           sv == save(local, id, to_dict(id, metadata, spec, st), backend, id,
                      accept, "None")
       IN [exc |-> sv.exc, caught |-> res.exc, status |-> st, id |-> sv.id,
           backend |-> sv.backend, env |-> res.env, effects |-> res.effects,
           api |-> sv.api]

Run_run ==
  \E env \in RunEnvs, accept \in Accepts :
  \E r \in {run(env, accept)} :
    /\ status' = r.status
    /\ id' = r.id
    /\ backend' = r.backend
    /\ last' = [Call("run") EXCEPT !.exc = r.exc, !.caught = r.caught,
                                   !.env = r.env, !.effects = r.effects,
                                   !.api = r.api,
                                   !.engines = Count(last.engines, r.effects, "engine"),
                                   !.registered =
                                     Count(last.registered, r.effects, "dataitem")]
    /\ prev' = Summary(last)
    /\ UNCHANGED <<threads, local, metadata, spec>>

\* Run.save called by the user. a.uuid is its argument, a.resp the id in
\* the backend's answer to a create, a.accept the backend's answer to an
\* update of an id it does not hold.
SaveCall(a) ==
  \E r \in {save(local, id, to_dict(id, metadata, spec, status), backend, a.uuid,
               a.accept, a.resp)} :
    /\ id' = r.id
    /\ backend' = r.backend
    /\ last' = [Call("save") EXCEPT !.exc = r.exc, !.key = a.uuid, !.api = r.api]
    /\ prev' = NoCall
    /\ UNCHANGED <<threads, local, metadata, spec, status>>

\* save() as documented ("uuid: ignore this parameter"), against a backend
\* that answers a create with the id it was given or with none
Run_save ==
  \E resp \in {id, "None"} :
    SaveCall([uuid |-> "None", accept |-> TRUE, resp |-> resp])

\* save() answered with another id, and save(uuid) with any id
Run_save_id ==
  \E a \in { [uuid |-> "None", accept |-> TRUE, resp |-> r] : r \in Ids \ {id} }
           \cup { [uuid |-> u, accept |-> TRUE, resp |-> "None"] : u \in Ids }
           \cup { [uuid |-> u, accept |-> FALSE, resp |-> "None"] :
                  u \in Ids \ DOMAIN backend } :
    SaveCall(a)

Run_refresh ==
  \E r \in {refresh(local, id, backend)} :
  /\ last' = [Call("refresh") EXCEPT !.exc = r.exc, !.read = r.read,
                                     !.resp = r.value]
  /\ prev' = NoCall
  /\ UNCHANGED <<threads, id, local, metadata, spec, status, backend>>

Run_get_artifacts ==
  \E output_key \in OutputKeys :
  \E r \in {get_artifacts(local, id, backend, output_key)} :
    /\ last' = [Call("get_artifacts") EXCEPT !.exc = r.exc, !.key = output_key,
                                             !.result = r.result]
    /\ prev' = NoCall
    /\ UNCHANGED <<threads, id, local, metadata, spec, status, backend>>

Run_get_dataitem ==
  \E output_key \in OutputKeys :
  \E r \in {get_dataitem(local, id, backend, output_key)} :
    /\ last' = [Call("get_dataitem") EXCEPT !.exc = r.exc, !.key = output_key,
                                            !.result = r.result]
    /\ prev' = NoCall
    /\ UNCHANGED <<threads, id, local, metadata, spec, status, backend>>

Next ==
  \/ Run_build
  \/ Run_run
  \/ Run_save
  \/ Run_refresh
  \/ Run_get_artifacts
  \/ Run_get_dataitem

Spec == Init /\ [][Next]_vars

\* the same Run when saves may also give it another id
NextIds == Next \/ Run_save_id

SpecIds == Init /\ [][NextIds]_vars


----------------------------------------------------------------------------
\* Run.from_dict on the dictionaries of a Run

\* the dictionary save() sends: to_dict plus the task reference
SavedDict(i, m, s, st) ==
  to_dict(i, m, s, st) @@ ("task_id" :> s["task_id"]) @@ ("task" :> s["task"])

Drop(obj, k) == [x \in (DOMAIN obj) \ {k} |-> obj[x]]

build_uuid(uuid) == IF uuid = "None" THEN "u1" ELSE uuid
build_kind(kind) == "run"
build_metadata(m) == m

_parse_dict(obj) ==
  IF ~({"project", "task_id", "task"} \subseteq DOMAIN obj)
  THEN [raised |-> TRUE,
        exc |-> Exc("EntityError", <<"Project, task or task_id are not specified.">>),
        value |-> EmptyDict]
  ELSE [raised |-> FALSE, exc |-> NoExc,
        value |->
          ("uuid" :> build_uuid(IF "id" \in DOMAIN obj THEN obj["id"] ELSE "None"))
          @@ ("kind" :> build_kind("None"))
          @@ ("metadata" :> build_metadata(IF "metadata" \in DOMAIN obj
                                           THEN obj["metadata"]
                                           ELSE [project |-> obj["project"]]))
          @@ ("spec" :> build_spec(IF "spec" \in DOMAIN obj THEN obj["spec"]
                                   ELSE ("task" :> obj["task"])
                                        @@ ("task_id" :> obj["task_id"])))
          @@ ("status" :> build_status(IF "status" \in DOMAIN obj
                                       THEN obj["status"] ELSE EmptyDict))
          @@ ("project" :> obj["project"])
          @@ ("task_id" :> obj["task_id"])
          @@ ("task" :> obj["task"])]

\* the parameters of Run.__init__
InitParams == {"uuid", "kind", "metadata", "spec", "status", "local"}

\* cls(**parsed_dict)
Run__init__(kwargs) ==
  IF \E k \in DOMAIN kwargs : k \notin InitParams
  THEN [raised |-> TRUE,
        exc |-> Exc("TypeError", <<"__init__() got an unexpected keyword argument">>),
        value |-> <<>>]
  ELSE [raised |-> FALSE, exc |-> NoExc,
        value |-> << [id |-> kwargs["uuid"], kind |-> kwargs["kind"],
                      metadata |-> kwargs["metadata"], spec |-> kwargs["spec"],
                      status |-> kwargs["status"]] >>]

from_dict(obj) ==
  LET parsed_dict == _parse_dict(obj) IN
  IF parsed_dict.raised
  THEN [raised |-> TRUE, exc |-> parsed_dict.exc, value |-> <<>>]
  ELSE Run__init__(parsed_dict.value)

\* the dictionary of the Run itself, the one save() sends for it, that one
\* without an id, and that one without its task
DictInputs ==
  { to_dict(id, metadata, spec, status),
    SavedDict(id, metadata, spec, status),
    Drop(SavedDict(id, metadata, spec, status), "id"),
    Drop(SavedDict(id, metadata, spec, status), "task") }

Run_from_dict ==
  \E obj \in DictInputs :
  \E r \in {from_dict(obj)} :
  /\ last' = [Call("from_dict") EXCEPT !.exc = r.exc, !.resp = obj,
                                       !.result = r.value]
  /\ prev' = NoCall
  /\ UNCHANGED <<threads, id, local, metadata, spec, status, backend>>

NextDict == Run_build \/ Run_run \/ Run_from_dict

SpecDict == Init /\ [][NextDict]_vars

----------------------------------------------------------------------------
\* The task string parser on its own: a Run constructed with any task string
\* of the sets below, on which _parse_task_string is called.

Kinds == {"transform", "job"}
Paths == {"ns", "other"}
Names == {"myfn", "fn2"}
FunctionIds == {"f1", "f2"}

\* k1+k2://p/n:id
ValidTasks ==
  { <<k1, "+", k2, ":", "/", "/", pa, "/", n, ":", i>> :
      k1 \in Kinds, k2 \in Kinds, pa \in Paths, n \in Names, i \in FunctionIds }

\* a task string without its i-th..j-th character
Without(t, i, j) == SubSeq(t, 1, i - 1) \o SubSeq(t, j + 1, Len(t))

NoPlus == { Without(t, 2, 2) : t \in ValidTasks }
NoScheme == { Without(t, 4, 6) : t \in ValidTasks }
NoColon == { Without(t, 10, 10) : t \in ValidTasks }
\* lacking two or three of the separators, or the "/" as well
NoSeveral ==
  { Without(Without(t, 10, 10), 2, 2) : t \in ValidTasks }
  \cup { Without(Without(t, 10, 10), 4, 6) : t \in ValidTasks }
  \cup { Without(Without(t, 10, 10), 8, 8) : t \in ValidTasks }
  \cup { Without(Without(Without(t, 10, 10), 4, 6), 2, 2) : t \in ValidTasks }
MissingSeparator == NoPlus \cup NoScheme \cup NoColon \cup NoSeveral

\* every separator present, but no function kind before the "+" or no
\* function id after the ":"
MissingToken ==
  { Without(t, 1, 1) : t \in ValidTasks }
  \cup { Without(t, 11, 11) : t \in ValidTasks }

\* a valid string followed by another segment
TrailingSegment == { t \o <<"/", "x">> : t \in ValidTasks }

\* a path of two segments: k1+k2://p/b/n:id
DeepTasks ==
  { SubSeq(t, 1, 7) \o <<"/", "b">> \o SubSeq(t, 8, 11) : t \in ValidTasks }

\* no "/" after the "://"
NoSlash == { Without(t, 7, 8) : t \in ValidTasks }

ParseTasks ==
  ValidTasks \cup MissingSeparator \cup MissingToken \cup TrailingSegment
  \cup DeepTasks \cup NoSlash

InitParse ==
  \E t \in ParseTasks :
  /\ id = "r1"
  /\ local = FALSE
  /\ metadata = [project |-> ScenarioProject]
  /\ spec = BaseSpec(t)
  /\ status = build_status(EmptyDict)
  /\ backend = EmptyDict
  /\ last = Call("init")
  /\ prev = NoCall
  /\ threads = NoThreads

Run_parse_task_string ==
  /\ last' = [Call("_parse_task_string") EXCEPT
                !.exc = _parse_task_string(spec).exc,
                !.parsed = _parse_task_string(spec)]
  /\ prev' = NoCall
  /\ UNCHANGED <<threads, id, local, metadata, spec, status, backend>>

NextParse == Run_parse_task_string

SpecParse == InitParse /\ [][NextParse]_vars

----------------------------------------------------------------------------
\* Run.run statement by statement, in a process that may crash between two
\* statements. threads.pc is the statement the call is at ("idle" outside
\* a call, "crashed" once the process is gone), threads.result what
\* runtime.run returned or the status of the except branch, threads.built
\* whether the call before this run() was a build() that returned.

Idle == [pc |-> "idle", result |-> EmptyDict, built |-> FALSE]

InitCrash ==
  \E r \in InitRuns :
  /\ InitRun(r)
  /\ threads = Idle

Crash_build ==
  /\ threads.pc = "idle"
  /\ Run_build

\* runtime = self._get_runtime()
Crash_get_runtime ==
  /\ threads.pc = "idle"
  /\ \E runtime \in {_get_runtime(spec)} :
       /\ threads' = IF runtime.raised THEN Idle
                     ELSE [pc |-> "runtime", result |-> EmptyDict,
                           built |-> last.op = "build" /\ last.exc.type = "none"]
       /\ last' = [Call("run") EXCEPT !.exc = runtime.exc]
       /\ prev' = Summary(last)
  /\ UNCHANGED <<id, local, metadata, spec, status, backend>>

\* status = runtime.run(self.to_dict(...)), or the except branch
Crash_runtime_run ==
  /\ threads.pc = "runtime"
  /\ \E env \in RunEnvs :
     \E res \in {RuntimeDBT_run(to_dict(id, metadata, spec, status), env)} :
       /\ threads' = [threads EXCEPT
                        !.pc = "set_status",
                        !.result = IF res.raised THEN ErrorStatus(res.exc)
                                   ELSE res.value]
       /\ last' = [last EXCEPT !.caught = res.exc, !.env = res.env,
                               !.effects = res.effects,
                               !.engines = Count(last.engines, res.effects, "engine"),
                               !.registered =
                                 Count(last.registered, res.effects, "dataitem")]
  /\ UNCHANGED <<id, local, metadata, spec, status, backend, prev>>

\* self._set_status(status)
Crash_set_status ==
  /\ threads.pc = "set_status"
  /\ status' = _set_status(threads.result)
  /\ threads' = [threads EXCEPT !.pc = "save"]
  /\ UNCHANGED <<id, local, metadata, spec, backend, last, prev>>

\* self.save(self.id); return self
Crash_save ==
  /\ threads.pc = "save"
  /\ \E accept \in Accepts :
     \E sv \in {save(local, id, to_dict(id, metadata, spec, status), backend, id,
                     accept, "None")} :
       /\ id' = sv.id
       /\ backend' = sv.backend
       /\ last' = [last EXCEPT !.exc = sv.exc, !.api = sv.api]
  /\ threads' = Idle
  /\ UNCHANGED <<local, metadata, spec, status, prev>>

\* the process dies inside run()
Crash ==
  /\ threads.pc \in {"runtime", "set_status", "save"}
  /\ threads' = [threads EXCEPT !.pc = "crashed"]
  /\ UNCHANGED <<id, local, metadata, spec, status, backend, last, prev>>

NextCrash ==
  \/ Crash_build
  \/ Crash_get_runtime
  \/ Crash_runtime_run
  \/ Crash_set_status
  \/ Crash_save
  \/ Crash

SpecCrash == InitCrash /\ [][NextCrash]_vars

----------------------------------------------------------------------------
\* Two built Runs of different projects whose transforms execute in two
\* threads of one process. Each RuntimeDBT works in the relative directory
\* "dbt_run" (dbt.py:119-120) and execute() changes the working directory of
\* the process (dbt.py:412-417). A directory is named by its depth: 0 is
\* the directory the process started in, d + 1 the "dbt_run" inside d, d - 1
\* the parent of d.

Runners == {"A", "B"}
ProjectOf(r) == IF r = "A" THEN "pa" ELSE "pb"

ThreadError(text) == ("state" :> ERROR) @@ ("message" :> text)

InitThreads ==
  [pc |-> [r \in Runners |-> "mkdir"], cwd |-> 0, dirs |-> {}, yml |-> EmptyDict,
   seen |-> [r \in Runners |-> "none"], status |-> [r \in Runners |-> PendingStatus]]

InitConcurrent ==
  /\ id = "r1"
  /\ local = FALSE
  /\ metadata = [project |-> ScenarioProject]
  /\ spec = WithIO(ScenarioTask, ScenarioIO)
  /\ status = PendingStatus
  /\ backend = EmptyDict
  /\ last = Call("init")
  /\ prev = NoCall
  /\ threads = InitThreads

At(r, pc) == threads.pc[r] = pc
Goto(t, r, pc) == [t EXCEPT !.pc[r] = pc]
Fail(t, r, text) == [t EXCEPT !.pc[r] = "done", !.status[r] = ThreadError(text)]
Rest == UNCHANGED <<id, local, metadata, spec, status, backend, last, prev>>

\* setup: self.model_dir.mkdir(exist_ok=True, parents=True)
Thread_mkdir ==
  \E r \in Runners :
  /\ At(r, "mkdir")
  /\ threads' = Goto([threads EXCEPT !.dirs = @ \cup {threads.cwd + 1}], r, "write")
  /\ Rest

\* generate_dbt_project_yml: (self.root_dir / "dbt_project.yml").write_text
Thread_write ==
  \E r \in Runners :
  /\ At(r, "write")
  /\ threads' =
       IF threads.cwd + 1 \in threads.dirs
       THEN Goto([threads EXCEPT
                    !.yml = Overlay(@, (threads.cwd + 1 :> ProjectOf(r)))],
                 r, "chdir")
       ELSE Fail(threads, r, <<"No such file or directory">>)
  /\ Rest

\* execute: os.chdir(self.root_dir)
Thread_chdir ==
  \E r \in Runners :
  /\ At(r, "chdir")
  /\ threads' =
       IF threads.cwd + 1 \in threads.dirs
       THEN Goto([threads EXCEPT !.cwd = @ + 1], r, "invoke")
       ELSE Fail(threads, r, <<"No such file or directory">>)
  /\ Rest

\* execute: dbt.invoke(cli_args), the engine reading the project of the
\* working directory
Thread_invoke ==
  \E r \in Runners :
  /\ At(r, "invoke")
  /\ threads' =
       Goto([threads EXCEPT
               !.seen[r] = IF threads.cwd \in DOMAIN threads.yml
                           THEN threads.yml[threads.cwd] ELSE "none"],
            r, "back")
  /\ Rest

\* execute: os.chdir("..")
Thread_back ==
  \E r \in Runners :
  /\ At(r, "back")
  /\ threads' = Goto([threads EXCEPT !.cwd = @ - 1], r, "parse")
  /\ Rest

\* parse_results and the status Run.run sets
Thread_parse ==
  \E r \in Runners :
  /\ At(r, "parse")
  /\ threads' =
       IF threads.seen[r] = "none"
       THEN Fail(threads, r, <<"No results found.">>)
       ELSE IF threads.seen[r] # ProjectOf(r)
       THEN Fail(threads, r, <<"Wrong project name.">>)
       ELSE [threads EXCEPT !.pc[r] = "done", !.status[r] = ("state" :> COMPLETED)]
  /\ Rest

NextConcurrent ==
  \/ Thread_mkdir
  \/ Thread_write
  \/ Thread_chdir
  \/ Thread_invoke
  \/ Thread_back
  \/ Thread_parse

SpecConcurrent == InitConcurrent /\ [][NextConcurrent]_vars

----------------------------------------------------------------------------
\* Properties

NotPendingText == <<"Run is not in pending state. Build it again.">>
NoResultText == <<"Run has no result (maybe try when it finishes).">>
LocalRefreshText == <<"Cannot refresh local run.">>

Returned == last.exc.type = "none"
RuntimeResolved == ~_get_runtime(spec).raised
Terminal == {COMPLETED, ERROR}
Engine == { i \in 1..Len(last.effects) : last.effects[i].e = "engine" }

\* C1: execute() on a Run whose state is CREATED, COMPLETED or ERROR (and
\* whose Runtime resolves) fails with the invalid-state error raised to the
\* caller.
C1_NotPendingRaises ==
  (last.op = "run" /\ last.pre \in {CREATED, COMPLETED, ERROR} /\ RuntimeResolved)
    => (last.exc.type = "EntityError" /\ last.exc.text = NotPendingText)

\* C2: when Runtime.run raised, execute() did not propagate the exception
\* and the status is ERROR with a non-empty message.
C2_ErrorMessageNonEmpty ==
  (last.op = "run" /\ last.caught.type # "none")
    => /\ last.exc # last.caught
       /\ status["state"] = ERROR
       /\ "message" \in DOMAIN status
       /\ Len(status["message"]) > 0

\* C3: every call of execute(), whatever happened in it, ends with the
\* state COMPLETED or ERROR.
C3_ExecuteEndsTerminal ==
  last.op = "run" => status["state"] \in Terminal

\* C4: a build() that returned left the state PENDING, and when the call
\* before it was a build() that returned, it started from PENDING: two
\* builds in a row pass through no other state.
C4_BuildLandsInPending ==
  (last.op = "build" /\ Returned)
    => /\ status["state"] = PENDING
       /\ (prev.op = "build" /\ prev.ok) => last.pre = PENDING

C4_Witness ==
  /\ last.op = "build" /\ Returned
  /\ prev.op = "build" /\ prev.ok
  /\ last.pre = PENDING /\ status["state"] = PENDING

\* the merge stated key by key: the Run's value, else the Task's, else
\* the Function's, and no other key
Precedence(f, t, r) ==
  [k \in (DOMAIN f) \cup (DOMAIN t) \cup (DOMAIN r) |->
     IF k \in DOMAIN r THEN r[k] ELSE IF k \in DOMAIN t THEN t[k] ELSE f[k]]

\* C5: the spec a build() installs is, key by key, the Run spec's value if
\* the Run spec has the key, else the Task spec's, else the Function spec's,
\* and has no key outside the three specs.
C5_MergePrecedence ==
  [][ (last'.op = "build" /\ last'.merged)
        => spec' = Precedence(last'.function, last'.task, spec) ]_vars

\* a build whose three specs collide: "sql" is in the Function and the Task
\* spec only, "outputs" in all three
C5_Witness ==
  /\ last.op = "build" /\ last.merged
  /\ "sql" \in (DOMAIN last.function) \cap (DOMAIN last.task)
  /\ spec["sql"] = last.task["sql"]
  /\ "outputs" \in (DOMAIN last.function) \cap (DOMAIN last.task)
  /\ spec["outputs"] # last.task["outputs"]
  /\ spec["outputs"] # last.function["outputs"]

\* C6: a build() invoked while the state is PENDING or RUNNING is not
\* performed: it replaces no spec and persists nothing.
C6_BuildRefusedWhenPending ==
  [][ (last'.op = "build" /\ status["state"] \in {PENDING, RUNNING})
        => (spec' = spec /\ backend' = backend) ]_vars

\* the spec lets a transform run: the task kind, a list of inputs, a
\* non-empty list of outputs and the sql
TransformReady ==
  /\ RuntimeResolved
  /\ _parse_task_string(spec).task_kind = <<TRANSFORM>>
  /\ "inputs" \in DOMAIN spec => spec["inputs"].shape \in {"dict", "dict_nokey"}
  /\ "outputs" \in DOMAIN spec
  /\ spec["outputs"].shape = "dict" /\ spec["outputs"].items # <<>>
  /\ "sql" \in DOMAIN spec

\* C7: for a non-local Run in ERROR or COMPLETED, a build() that replaced
\* the spec left PENDING, and an execute() right after a build() from ERROR
\* or COMPLETED that returned, with collaborators and engine that succeed,
\* ends with COMPLETED.
C7_RetryFromTerminal ==
  /\ (last.op = "build" /\ last.pre \in Terminal /\ last.merged)
       => status["state"] = PENDING
  /\ (last.op = "run" /\ prev.op = "build" /\ prev.ok /\ prev.pre \in Terminal
        /\ TransformReady /\ last.env.fault = "none")
       => (status["state"] = COMPLETED /\ Returned)

C7_Witness ==
  /\ last.op = "run" /\ prev.op = "build" /\ prev.ok /\ prev.pre = ERROR
  /\ ~local /\ TransformReady /\ last.env.fault = "none"
  /\ status["state"] = COMPLETED

IsScenario ==
  /\ spec["task"] = ScenarioTask
  /\ "inputs" \in DOMAIN spec /\ spec["inputs"] = Val("dict", <<"t1">>)
  /\ "outputs" \in DOMAIN spec /\ spec["outputs"] = Val("dict", <<"t2">>)

C9_EngineFailureIsError ==
  (last.op = "run" /\ prev.op = "build" /\ prev.ok /\ last.env.fault = "not_success")
    => /\ Returned
       /\ status["state"] = ERROR
       /\ "message" \in DOMAIN status
       /\ Len(status["message"]) > 0

C9_Witness ==
  /\ last.op = "run" /\ prev.op = "build" /\ prev.ok
  /\ last.env.fault = "not_success" /\ Engine # {}
  /\ status["state"] = ERROR /\ Returned

Getters == {"get_artifacts", "get_dataitem"}
Field == IF last.op = "get_artifacts" THEN "artifacts" ELSE "dataitems"

\* C10 as claimed: get_artifacts / get_dataitem fail with the no-result
\* error whenever the Run's status has no such result list, for every Run.
C10_NoResultForEveryRun ==
  (last.op \in Getters /\ Field \notin DOMAIN status)
    => last.exc.text = NoResultText

\* C10 as amended: get_artifacts / get_dataitem, with or without a key,
\* read the status the backend holds under the Run's id. On a local-only
\* Run they fail with the local-mode error of refresh, on a Run the backend
\* does not hold with the backend's error, and otherwise they fail with the
\* no-result error exactly when that status has no such result list.
C10_NoResultFromBackend ==
  last.op \in Getters
    => IF local THEN last.exc.text = LocalRefreshText
       ELSE IF id \notin DOMAIN backend THEN last.exc.type = "BackendError"
       ELSE (Field \notin DOMAIN backend[id].status) <=> (last.exc.text = NoResultText)

C10_Witness ==
  /\ last.op = "get_dataitem" /\ last.key = "t2" /\ ~local
  /\ id \in DOMAIN backend /\ "dataitems" \notin DOMAIN backend[id].status
  /\ backend[id].status["state"] = PENDING
  /\ last.exc.text = NoResultText

Noun == IF last.op = "get_artifacts" THEN "artifact" ELSE "dataitem"
NotFoundText == <<"No ", Noun, " found with key '", last.key, "'.">>
HasResultList ==
  ~local /\ id \in DOMAIN backend /\ Field \in DOMAIN backend[id].status

\* C11: for a Run whose result list is present, get_artifacts / get_dataitem
\* with a key return the id of the first entry of that key and fail with the
\* not-found error exactly when no entry has the key; without a key they
\* return the ids of all entries in list order.
C11_ResultLookup ==
  (last.op \in Getters /\ HasResultList)
    => LET list == backend[id].status[Field]
           hits == { i \in 1..Len(list) : list[i].key = last.key }
       IN IF last.key = "None"
          THEN /\ Returned
               /\ Len(last.result) = Len(list)
               /\ \A i \in 1..Len(list) : last.result[i] = list[i].id
          ELSE /\ (hits = {}) <=> (last.exc.text = NotFoundText)
               /\ hits # {} =>
                    /\ Returned
                    /\ Len(last.result) = 1
                    /\ \E i \in hits : /\ \A j \in hits : i <= j
                                       /\ last.result[1] = list[i].id

\* a keyed lookup in a list where two entries carry the key
C11_Witness ==
  /\ last.op = "get_artifacts" /\ HasResultList /\ last.key = "out"
  /\ Cardinality({ i \in 1..Len(backend[id].status["artifacts"]) :
                     backend[id].status["artifacts"][i].key = "out" }) = 2
  /\ Returned /\ last.result = <<"a1">>

\* C12: refresh() on a local Run fails with the local-mode error and reads
\* nothing from the backend; on a non-local Run it reads the object under
\* the Run's id and returns what the backend holds there.
C12_Refresh ==
  last.op = "refresh"
    => IF local
       THEN /\ last.exc.type = "EntityError" /\ last.exc.text = LocalRefreshText
            /\ last.read = "None"
       ELSE /\ last.read = id
            /\ IF id \in DOMAIN backend
               THEN Returned /\ last.resp = backend[id]
               ELSE last.exc.type = "BackendError"

\* a refresh of a Run whose fields differ from what the backend holds
C12_Witness ==
  /\ last.op = "refresh" /\ ~local /\ Returned /\ id \in DOMAIN backend
  /\ last.resp = backend[id] /\ last.resp.status # status

Parsed == last.op = "_parse_task_string"

\* C13: for a valid task string k1+k2://p/n:id the parsed fields determine
\* the string, the path p included: parsing succeeds and no other valid
\* task string parses to the same fields, so that re-encoding the fields
\* can yield the identical string.
C13_ParseKeepsTaskString ==
  (Parsed /\ spec["task"] \in ValidTasks)
    => /\ ~last.parsed.raised
       /\ \A t \in ValidTasks :
            _parse_task_string(BaseSpec(t)) = last.parsed => t = spec["task"]

\* C14: parsing a malformed task string (no "+" between two kind tokens,
\* no "://", no ":" between a function name and a function id) raises and
\* returns no TaskString.
C14_MalformedRejected ==
  (Parsed /\ spec["task"] \in MissingSeparator \cup MissingToken)
    => /\ last.parsed.raised
       /\ last.exc.type \in {"ValueError", "IndexError"}

\* C15: the Run's id never changes after construction, whatever operation
\* is called, save with another uuid and a create whose response carries
\* another id included.
C15_IdImmutable == [][id' = id]_vars

ResultKeys == {"dataitems", "artifacts", "timing"}

\* C17: in every reachable state the status carries a message exactly when
\* its state is ERROR and carries a result (references of the produced
\* dataitems, timings) exactly when its state is COMPLETED; a build() from
\* ERROR or COMPLETED that replaced the spec leaves neither.
C17_MessageAndResult ==
  /\ ("message" \in DOMAIN status) <=> (status["state"] = ERROR)
  /\ (ResultKeys \cap DOMAIN status # {}) <=> (status["state"] = COMPLETED)
  /\ status["state"] = COMPLETED => {"dataitems", "timing"} \subseteq DOMAIN status
  /\ (last.op = "build" /\ last.merged /\ last.pre \in Terminal)
       => DOMAIN status = {"state"}

C17_Witness ==
  /\ last.op = "build" /\ last.merged /\ last.pre = COMPLETED
  /\ DOMAIN status = {"state"} /\ status["state"] = PENDING

\* C18: from_dict of a dictionary that has project, task and task_id
\* returns a Run, and for the dictionary of a Run r (the one save() sends
\* for it) that Run has the id, metadata, spec and status of r.
C18_DictRoundTrip ==
  (last.op = "from_dict" /\ {"project", "task_id", "task"} \subseteq DOMAIN last.resp)
    => /\ Returned /\ Len(last.result) = 1
       /\ last.resp = SavedDict(id, metadata, spec, status)
            => /\ last.result[1].id = id
               /\ last.result[1].spec = spec
               /\ last.result[1].status = status

\* C19: in every interleaving of the transforms of two Runs of different
\* projects, each Run ends with the status it ends with when it executes
\* alone, which is COMPLETED.
C19_ThreadsIndependent ==
  \A r \in Runners :
    threads.pc[r] = "done" => threads.status[r]["state"] = COMPLETED

InsideRun == threads.pc \in {"runtime", "set_status", "save", "crashed"}

----------------------------------------------------------------------------
\* Errors of build() before the merge

\* C21: a build() that fails while parsing the task string, looking up the
\* Function or the Task, or resolving the Runtime (so before the merge)
\* raises the error to its caller, and spec, status and backend are as
\* before the call.
C21_BuildErrorsRaised ==
  [][ (last'.op = "build" /\ ~last'.merged)
        => /\ last'.exc.type # "none"
           /\ spec' = spec
           /\ status' = status
           /\ backend' = backend ]_vars

\* a build that does not find the Task, after an execution that ended in
\* ERROR and was persisted: the error is raised and the ERROR status is kept
C21_Witness ==
  /\ last.op = "build" /\ ~last.merged
  /\ last.exc = Exc("BackendError", <<"task not found">>)
  /\ status["state"] = ERROR
  /\ id \in DOMAIN backend

----------------------------------------------------------------------------
\* Task kinds the Runtime does not support

TaskKind == _parse_task_string(spec).task_kind
Unsupported == RuntimeResolved /\ TaskKind # <<TRANSFORM>>
UnsupportedText == <<"Task ">> \o TaskKind \o <<" not allowed for DBT runtime">>

\* C22: when the task kind of the Run's task reference is not 'transform',
\* Runtime.run on a PENDING Run fails with the unsupported-task error and
\* has no side effect (no table, no engine invocation, no Dataitem); on a
\* Run that is not PENDING it fails with the invalid-state error instead,
\* the state being checked first.
C22_UnsupportedTask ==
  (last.op = "run" /\ Unsupported)
    => /\ last.effects = <<>>
       /\ last.caught.type = "EntityError"
       /\ last.caught.text =
            IF last.pre = PENDING THEN UnsupportedText ELSE NotPendingText

\* a built Run of task kind 'job' has been executed
C22_Witness ==
  /\ last.op = "run" /\ last.pre = PENDING
  /\ TaskKind = <<"job">>
  /\ last.caught = Exc("EntityError", <<"Task ", "job", " not allowed for DBT runtime">>)

----------------------------------------------------------------------------
\* The name:id pair of a task reference

LastPair(t) == [name |-> <<t[Len(t) - 2]>>, id |-> <<t[Len(t)]>>]

\* C23: for every task string whose path has one or more '/'-separated
\* segments (k1+k2://p/n:id, k1+k2://p/b/n:id) the parser yields the
\* function name and function id of the name:id pair after the LAST '/',
\* and a string with no '/' after '://' is rejected.
C23_PairAfterLastSlash ==
  Parsed =>
    /\ spec["task"] \in ValidTasks \cup DeepTasks
         => /\ ~last.parsed.raised
            /\ last.parsed.function_name = LastPair(spec["task"]).name
            /\ last.parsed.function_id = LastPair(spec["task"]).id
    /\ spec["task"] \in NoSlash => last.parsed.raised

----------------------------------------------------------------------------
\* Validation of inputs and outputs in transform

Dataitems(key) == SpecDataitems(spec, key)
NotASequence(key) == ~Dataitems(key).raised /\ Dataitems(key).value.shape # "list"
EmptySequence(key) ==
  /\ ~Dataitems(key).raised
  /\ Dataitems(key).value.shape = "list"
  /\ Len(Dataitems(key).value.items) = 0
Tables == { i \in 1..Len(last.effects) : last.effects[i].e = "table" }

\* C24: when inputs is not a sequence, or outputs is not a sequence or is
\* empty, a transform fails before any input has been materialised into an
\* external table.
C24_ValidationBeforeEffects ==
  ( /\ last.op = "run" /\ last.pre = PENDING
    /\ NotASequence("inputs") \/ NotASequence("outputs") \/ EmptySequence("outputs") )
    => /\ last.caught.type # "none"
       /\ Tables = {}

----------------------------------------------------------------------------
\* One transform, input by input, while another client of the backend
\* publishes new revisions of the input Dataitems. threads.store is the
\* revision the backend holds of each input name (what get_dataitem(project,
\* name) answers with), threads.tables the tables written by
\* materialize_inputs, threads.models the tables the generated models read,
\* threads.read the tables the engine read.

InputNames == <<"t1", "t3">>
MaxRevision == 3

\* get_dataitem(project, name).id
get_dataitem_id(store, name) == store[name]

\* "{name}_v{id}"
Versioned(name, i) == <<name, "_v", i>>

InitRevisions ==
  /\ id = "r1"
  /\ local = FALSE
  /\ metadata = [project |-> ScenarioProject]
  /\ spec = WithIO(ScenarioTask, <<Val("dict", InputNames), Val("dict", <<"t2">>)>>)
  /\ status = PendingStatus
  /\ backend = EmptyDict
  /\ last = Call("init")
  /\ prev = NoCall
  /\ \E s \in [{InputNames[i] : i \in 1..Len(InputNames)} -> 1..(MaxRevision - 1)] :
       threads = [pc |-> "materialize", at |-> 1, store |-> s, tables |-> {},
                  models |-> {}, read |-> {}]

\* another client stores a new revision of an input Dataitem
Revision_new ==
  \E n \in DOMAIN threads.store :
  /\ threads.store[n] < MaxRevision
  /\ threads' = [threads EXCEPT !.store[n] = @ + 1]
  /\ Rest

\* materialize_inputs, one turn of its loop: di = get_dataitem(project, name);
\* di.write_df(".../{name}_v{di.id}")
Revision_materialize ==
  /\ threads.pc = "materialize"
  /\ threads.at <= Len(InputNames)
  /\ LET name == InputNames[threads.at]
         table == Versioned(name, get_dataitem_id(threads.store, name))
     IN threads' = [threads EXCEPT !.tables = @ \cup {table}, !.at = @ + 1]
  /\ Rest

\* parse_outputs, get_uiid and setup up to generate_outputs_conf
Revision_setup ==
  /\ threads.pc = "materialize"
  /\ threads.at > Len(InputNames)
  /\ threads' = [threads EXCEPT !.pc = "generate", !.at = 1]
  /\ Rest

\* generate_inputs_conf, one turn of its loop: response = get_dataitem(
\* project, name); uuid = response.id; 'SELECT * FROM "{name}_v{uuid}"'
Revision_generate ==
  /\ threads.pc = "generate"
  /\ threads.at <= Len(InputNames)
  /\ LET name == InputNames[threads.at]
         table == Versioned(name, get_dataitem_id(threads.store, name))
     IN threads' = [threads EXCEPT !.models = @ \cup {table}, !.at = @ + 1]
  /\ Rest

\* execute: the engine runs the generated models
Revision_execute ==
  /\ threads.pc = "generate"
  /\ threads.at > Len(InputNames)
  /\ threads' = [threads EXCEPT !.pc = "done", !.read = threads.models]
  /\ Rest

NextRevisions ==
  \/ Revision_new
  \/ Revision_materialize
  \/ Revision_setup
  \/ Revision_generate
  \/ Revision_execute

SpecRevisions == InitRevisions /\ [][NextRevisions]_vars

\* C25: within one transform execution, every table '<name>_v<id>' the
\* engine reads through the generated models is a table the same execution
\* materialised, also when an input got a new revision in the backend
\* between materialisation and project generation.
C25_EngineReadsMaterialised ==
  threads.pc = "done" => threads.read \subseteq threads.tables

----------------------------------------------------------------------------
\* Registration of the output Dataitem

Registered == { i \in 1..Len(last.effects) : last.effects[i].e = "dataitem" }
Bound ==
  { last.effects[i].name : i \in { j \in 1..Len(last.effects) :
                                     last.effects[j].e = "version" } }
Output == parse_outputs(Dataitems("outputs").value).value
StoreKey(u) ==
  <<"store", ":", "/", "/">> \o metadata.project
    \o <<"/", "dataitems", "/", DBT, "/", Output, ":", u>>

\* C26: an execution registers a Dataitem only after the engine ran and its
\* result was validated and parsed (success, matching project and output
\* name, complete timings); an execution whose Runtime raised, at any of
\* these steps, ends in ERROR with no Dataitem registered. The registered
\* Dataitem has the revision id bound to the output in the generated project
\* and the status references it as store://<project>/dataitems/<kind>/<name>:<id>.
C26_DataitemAfterValidation ==
  last.op = "run" =>
    /\ Registered # {} =>
         /\ last.caught.type = "none"
         /\ last.env.fault \notin ResultFaults
         /\ Engine # {}
         /\ \A i \in Registered, j \in Engine : j < i
         /\ status["state"] = COMPLETED
         /\ "timing" \in DOMAIN status
         /\ "dataitems" \in DOMAIN status
         /\ \E u \in Bound :
              /\ Bound = {u}
              /\ status["dataitems"] =
                   << [key |-> Output, kind |-> DBT, id |-> StoreKey(u)] >>
    /\ last.caught.type # "none" =>
         /\ Registered = {}
         /\ status["state"] = ERROR

\* a transform in project p-1 that registered revision u2 of the output
C26_Witness ==
  /\ last.op = "run" /\ Registered # {}
  /\ Bound = {"u2"}
  /\ metadata.project = ScenarioProject
  /\ status["state"] = COMPLETED

----------------------------------------------------------------------------
\* The persist step of build()

Persisting == last'.op = "build" /\ last'.merged /\ ~local

\* C27: the persist step of build() is create-or-update by id: it creates
\* the object when the backend holds none with the Run's id and updates it
\* when it does; after a successful build() of a non-local Run the backend
\* holds an object with the Run's id whose state is PENDING and whose spec is
\* the merged spec.
C27_CreateOrUpdate ==
  [][ Persisting =>
        /\ last'.api = IF id \in DOMAIN backend THEN "update" ELSE "create"
        /\ last'.exc.type = "none" =>
             /\ id' \in DOMAIN backend'
             /\ backend'[id'].status["state"] = PENDING
             /\ backend'[id'].spec = spec' ]_vars

----------------------------------------------------------------------------
\* execute() on a COMPLETED Run

\* C28: an execute() called on a COMPLETED Run, without a rebuild, leaves
\* both the in-memory status and the persisted status unchanged.
C28_CompletedIsStable ==
  [][ (last'.op = "run" /\ status["state"] = COMPLETED)
        => /\ status' = status
           /\ backend' = backend ]_vars

----------------------------------------------------------------------------
\* Executions enabled by one build()

\* C29: between two consecutive calls of build(), over any number of calls
\* of execute() (and of the other operations), the external engine is
\* invoked at most once and a Dataitem is registered at most once.
C29_OneExecutionPerBuild ==
  /\ last.engines <= 1
  /\ last.registered <= 1

\* an execute() refused after the transform of the same build ran the
\* engine and registered its Dataitem
C29_Witness ==
  /\ last.op = "run" /\ last.pre = COMPLETED
  /\ last.effects = <<>>
  /\ last.engines = 1 /\ last.registered = 1

----------------------------------------------------------------------------
\* build() and execute() when the persist step raises

LocalSaveText == <<"Use .export() for local execution.">>

\* save raised for a local-only Run
PersistRaised ==
  /\ local
  /\ last'.exc = Exc("EntityError", LocalSaveText)
  /\ \/ last'.op = "build" /\ last'.merged
     \/ last'.op = "run" /\ RuntimeResolved

\* C30: build() and execute() are atomic with respect to the persist step:
\* when it raises, as it does for a local-only Run ('Use .export() for local
\* execution.'), the in-memory spec and status are the same as before the
\* call.
C30_AtomicPersist ==
  [][ PersistRaised => (spec' = spec /\ status' = status) ]_vars

----------------------------------------------------------------------------
\* The working directory of the process over one execution

\* os.chdir applied to a directory named by its depth below the directory
\* the process started in: "dbt_run" goes one down, ".." one up
RECURSIVE chdir(_, _, _)
chdir(cwd, effects, i) ==
  IF i > Len(effects) THEN cwd
  ELSE IF effects[i].e # "chdir" THEN chdir(cwd, effects, i + 1)
  ELSE IF effects[i].name = ".." THEN chdir(cwd - 1, effects, i + 1)
  ELSE chdir(cwd + 1, effects, i + 1)

\* C31: the working directory of the process is the same after an
\* execution as before it, when the engine returned a result and when the
\* engine invocation raised an exception that execute() turned into an ERROR
\* status.
C31_WorkingDirectoryRestored ==
  (last.op = "run" /\ Engine # {}) => chdir(0, last.effects, 1) = 0

====
